---- MODULE Spec2Model ----
(***************************************************************************)
(* Task-management backend (FastAPI + SQLAlchemy + python-jose + passlib). *)
(*                                                                         *)
(* Two layers are modelled, each as the code writes it:                    *)
(*   Spec      the service layer (service/auth_service.py and              *)
(*             service/task_service.py) called with an already established *)
(*             identity, on a store that may hold rows of earlier runs;    *)
(*   SpecHttp  the request layer (core/deps.py and the two controllers):   *)
(*             dependency resolution, the cookie gate, the endpoint and    *)
(*             the release of the database session, with requests          *)
(*             interleaved.                                                *)
(*                                                                         *)
(* Python names are resolved as Python resolves them: a name that the      *)
(* namespace it is looked up in does not hold raises NameError or          *)
(* AttributeError (TypeError for a constructor keyword), and an exception  *)
(* no handler catches leaves the endpoint as a 500.  The model covers the  *)
(* handlers of an application whose modules are loaded; module load itself *)
(* (core/config.py, database/db.py) is not a step of the model.            *)
(***************************************************************************)
EXTENDS Integers, Sequences, FiniteSets, Bags, TLC

\* ------------------------------------------------------------------ bounds
MaxTasks == 2
MaxClock == 2
MaxReqs == 2

\* ------------------------------------------------------- program constants
\* timedelta(minutes=60), the ttl login passes to create_access_token_service
TokenTtlMinutes == 60
\* One clock tick of the model, in minutes.
TickMinutes == 40

VARIABLES
    users,            \* rows of table "users"
    tasks,            \* rows of table "tasks" (functions on TaskColumns)
    now,              \* wall clock, in ticks
    created_default,  \* the value Column(..., default=datetime.now(...)) holds
    res,              \* the last service call: its arguments and its outcome
    reqs              \* the bag of requests being handled or answered

vars == <<users, tasks, now, created_default, res, reqs>>

\* Optional[...] values: None, or the value wrapped.
None == <<>>
Some(v) == <<v>>

\* Caller identities: the ids of the seeded users and one more.
Emails == {"a@x.com", "b@x.com", "c@x.com"}
Passwords == {"pw", "pw2"}
UserIds == 1..Cardinality(Emails)
TaskIds == 1..MaxTasks

\* ---------------------------------------------------------------- models
\* model/task.py: the mapped attributes of class Task.
TaskColumns ==
    {"id", "user_id", "title", "desciption", "category", "priority",
     "is_completed", "due_date", "created_date"}

\* model/user.py: the mapped attributes of class User.
UserColumns == {"id", "email", "hashed_password", "created_date"}

\* Names bound in service/auth_service.py's module namespace (its imports and
\* its own functions); builtins hold none of the names the module looks up.
AuthServiceGlobals ==
    {"datetime", "timedelta", "timezone", "jwt", "Session", "User", "settings",
     "create_user_service", "authenticate_user_service",
     "create_access_token_service"}

\* Attributes of sqlalchemy.orm.Session the services may use.
SessionAttrs ==
    {"query", "add", "delete", "commit", "refresh", "close", "rollback",
     "flush", "execute", "get"}

\* Attributes of module jose.jwt.
JoseJwtAttrs ==
    {"encode", "decode", "get_unverified_header", "get_unverified_headers",
     "get_unverified_claims"}

\* ------------------------------------------------------ passlib CryptContext
\* bcrypt_contex.hash: a salted one-way digest; the salt is kept in the hash.
BcryptHash(password, salt) ==
    [scheme |-> "bcrypt", salt |-> salt, digest |-> <<salt, password>>]

\* bcrypt_contex.verify: recompute the digest with the stored salt.
BcryptVerify(password, hashed) ==
    hashed.digest = <<hashed.salt, password>>

\* ------------------------------------------------------------ outcomes
\* What a service call gives its caller: a value, or an exception that the
\* framework turns into a status (HTTPException as raised, anything else 500).
Return(value, T) ==
    [status |-> 200, detail |-> "", body |-> value, store |-> T]

Raise(code, why, T) ==
    [status |-> code, detail |-> why, body |-> {}, store |-> T]

\* An ORM instance handed back to the caller: its row as loaded from the
\* table, and the plain instance attributes set on it that are no column.
Obj(row, extra) == [row |-> row, extra |-> extra]

\* Query.first() on a filter over the primary key: the row, when there is one.
First(q) == CHOOSE t \in q : TRUE

MaxOf(S) == CHOOSE m \in S : \A x \in S : x <= m

\* The primary key the table assigns to an inserted row.
NextId(rows) == IF rows = {} THEN 1 ELSE MaxOf({r.id : r \in rows}) + 1

\* ----------------------------------------------------- task_controller.py
TaskFields ==
    {"title", "description", "category", "priority", "is_completed", "due_date"}

\* class TaskBase(BaseModel): the payload as the endpoint receives it, the
\* declared defaults filled in for the fields the body leaves out.
TaskBase(body) ==
    [title |-> body.title,
     description |->
        IF "description" \in DOMAIN body THEN Some(body.description) ELSE None,
     category |-> body.category,
     priority |-> body.priority,
     is_completed |->
        IF "is_completed" \in DOMAIN body THEN body.is_completed ELSE FALSE,
     due_date |->
        IF "due_date" \in DOMAIN body THEN Some(body.due_date) ELSE None]

\* Request bodies: one that supplies every field, one that supplies only the
\* required ones.
Bodies ==
    {[title |-> "report", description |-> "Y", category |-> "work",
      priority |-> "high", is_completed |-> TRUE, due_date |-> 2],
     [title |-> "buy milk", category |-> "shopping", priority |-> "low"]}

\* ------------------------------------------------------- task_service.py
\* get_task_service
get_task_service(T, user_id, task_id) ==
    LET q == {t \in T : t.id = task_id /\ t.user_id = user_id}
    IN  IF q = {}
        THEN Raise(404, "Task not found", T)
        ELSE Return({Obj(First(q), {})}, T)

\* get_all_task_service: db.qury(Task).filter(...).all()
get_all_task_service(T, user_id) ==
    IF "qury" \notin SessionAttrs
    THEN Raise(500, "AttributeError", T)
    ELSE Return({Obj(t, {}) : t \in {x \in T : x.user_id = user_id}}, T)

\* The keyword arguments create_task_service passes to Task(...).
CreateTaskKwargs(user_id, task) ==
    [user_id |-> user_id,
     title |-> task.title,
     description |-> task.description,
     category |-> task.category,
     priority |-> task.priority,
     is_completed |-> task.is_completed,
     due_date |-> task.due_date]

\* The value an INSERT gives a column the instance does not set.
TaskColumnDefault(c, T) ==
    CASE c = "id" -> NextId(T)
      [] c = "is_completed" -> FALSE
      [] c = "created_date" -> Some(created_default)
      [] OTHER -> None

\* create_task_service: the declarative constructor takes only keywords that
\* are attributes of the class; then add, commit, refresh.
create_task_service(T, user_id, task) ==
    LET kw == CreateTaskKwargs(user_id, task)
    IN  IF ~(DOMAIN kw \subseteq TaskColumns)
        THEN Raise(500, "TypeError", T)
        ELSE LET row == [c \in TaskColumns |->
                            IF c \in DOMAIN kw THEN kw[c]
                            ELSE TaskColumnDefault(c, T)]
             IN  Return({Obj(row, {})}, T \cup {row})

\* The attributes update_task_service assigns on the loaded instance.
UpdateTaskAssigned(task_data) ==
    [title |-> task_data.title,
     description |-> task_data.description,
     category |-> task_data.category,
     priority |-> task_data.priority,
     is_completed |-> task_data.is_completed,
     due_date |-> task_data.due_date]

\* update_task_service with the owner left out of the filter.
update_task_service_any_owner(T, user_id, task_id, task_data) ==
    LET q == {t \in T : t.id = task_id}
    IN  IF q = {}
        THEN Raise(404, "Task not found", T)
        ELSE LET old == First(q)
                 asg == UpdateTaskAssigned(task_data)
                 row == [c \in TaskColumns |->
                            IF c \in DOMAIN asg THEN asg[c] ELSE old[c]]
                 extra == {<<a, asg[a]>> : a \in DOMAIN asg \ TaskColumns}
             IN  Return({Obj(row, extra)}, (T \ {old}) \cup {row})

\* update_task_service: an assignment to a mapped attribute reaches the row at
\* commit; an assignment to any other name stays on the instance only.
update_task_service(T, user_id, task_id, task_data) ==
    LET q == {t \in T : t.id = task_id /\ t.user_id = user_id}
    IN  IF q = {}
        THEN Raise(404, "Task not found", T)
        ELSE LET old == First(q)
                 asg == UpdateTaskAssigned(task_data)
                 row == [c \in TaskColumns |->
                            IF c \in DOMAIN asg THEN asg[c] ELSE old[c]]
                 extra == {<<a, asg[a]>> : a \in DOMAIN asg \ TaskColumns}
             IN  Return({Obj(row, extra)}, (T \ {old}) \cup {row})

\* delete_task_service
delete_task_service(T, user_id, task_id) ==
    LET q == {t \in T : t.id = task_id /\ t.user_id = user_id}
    IN  IF q = {}
        THEN Raise(404, "Task not found", T)
        ELSE [status |-> 200, detail |-> "Task delete successfully",
              body |-> {}, store |-> T \ {First(q)}]

\* ------------------------------------------------------- auth_service.py
\* The keyword arguments create_user_service passes to the constructor.
CreateUserKwargs == {"email", "hashed_password"}

\* create_user_service: new_user = Use(...); db.add; db.commit.  The unique
\* index on users.email makes the commit of a second row fail.
create_user_service(U, email, password, salt) ==
    IF "Use" \notin AuthServiceGlobals
    THEN Raise(500, "NameError", U)
    ELSE IF ~(CreateUserKwargs \subseteq UserColumns)
    THEN Raise(500, "TypeError", U)
    ELSE IF \E u \in U : u.email = email
    THEN Raise(500, "IntegrityError", U)
    ELSE Return({}, U \cup {[id |-> NextId(U), email |-> email,
                             hashed_password |-> BcryptHash(password, salt),
                             created_date |-> Some(created_default)]})

\* authenticate_user_service with the password check left out.
authenticate_user_service_no_verify(U, email, password) ==
    LET q == {u \in U : u.email = email}
    IN  IF q = {} THEN {} ELSE {First(q)}

\* authenticate_user_service: False ({}), or the user.
authenticate_user_service(U, email, password) ==
    LET q == {u \in U : u.email = email}
    IN  IF q = {} THEN {}
        ELSE IF ~BcryptVerify(password, First(q).hashed_password) THEN {}
        ELSE {First(q)}

\* ------------------------------------------------------------- jose.jwt
\* settings["AUTH_SECRET_KEY"], and a key that is not it.
SecretKey == "AUTH_SECRET_KEY"
OtherKey == "not-the-secret"

NoClaims == [sub |-> None, id |-> None, exp |-> None]

\* jwt.encode: the claims and their HMAC under the key.
JwtEncode(claims, key) ==
    [fmt |-> "jws", claims |-> claims, sig |-> <<key, claims>>]

\* A cookie value that is no JWS at all (the empty string logout sets is one).
NotAJws == [fmt |-> "text", claims |-> NoClaims, sig |-> <<>>]

\* jwt.decode: JWTError for a value that is no JWS, for a signature the key
\* does not verify and (ExpiredSignatureError) for an exp before now.
JwtDecode(token, key, t) ==
    IF token.fmt # "jws" THEN [error |-> "JWTError", claims |-> NoClaims]
    ELSE IF token.sig # <<key, token.claims>>
    THEN [error |-> "JWTError", claims |-> NoClaims]
    ELSE IF token.claims.exp # None /\ token.claims.exp[1] < t
    THEN [error |-> "JWTError", claims |-> NoClaims]
    ELSE [error |-> "", claims |-> token.claims]

\* create_access_token_service
create_access_token_service(email, user_id, expire_delta, t) ==
    JwtEncode([sub |-> Some(email), id |-> Some(user_id),
               exp |-> Some(t + expire_delta)], SecretKey)

\* ------------------------------------------------------------ core/deps.py
\* What a dependency or an endpoint leaves the request with.
Outcome(status, detail, identity, token, set_cookie) ==
    [status |-> status, detail |-> detail, identity |-> identity,
     token |-> token, set_cookie |-> set_cookie]

\* get_current_user: the identity of the jwt cookie, or the exception raised.
\* Only JWTError is caught; HTTPException and anything else leave the function.
get_current_user(cookie, t) ==
    IF cookie = None
    THEN Outcome(401, "Token not found in cookies", {}, None, None)
    ELSE IF "decod" \notin JoseJwtAttrs
    THEN Outcome(500, "AttributeError", {}, None, None)
    ELSE LET d == JwtDecode(cookie[1], SecretKey, t)
         IN  IF d.error # ""
             THEN Outcome(401, "Invalid or expired token", {}, None, None)
             ELSE IF d.claims.sub = None \/ d.claims.id = None
             THEN Outcome(401, "Invalid token payload", {}, None, None)
             ELSE Outcome(200, "",
                          {[email |-> d.claims.sub[1], id |-> d.claims.id[1]]},
                          None, None)

\* get_db with the close after the yield and no try/finally around it.
get_db_exit_no_finally(db, raised) == IF raised THEN db ELSE "closed"

\* get_db: db = SessionLocal(); try: yield db; finally: db.close().  The
\* session after the generator is closed, whether the request raised or not.
get_db_exit(db, raised) == "closed"

\* ------------------------------------------------------ auth_controller.py
\* login: authenticate, issue the token, set it as the jwt cookie.
login(U, email, password, t) ==
    LET user == authenticate_user_service(U, email, password)
    IN  IF user = {}
        THEN Outcome(401, "Could not validate user", {}, None, None)
        ELSE LET u == First(user)
                 token == create_access_token_service(
                              u.email, u.id, TokenTtlMinutes, t)
             IN  Outcome(200, "", {}, Some(token),
                         Some([value |-> token, max_age |-> 3600]))

\* logout: the jwt cookie is set to the empty string with max_age 0.
logout == Outcome(200, "Logged out successfully", {}, None,
                  Some([value |-> NotAJws, max_age |-> 0]))

\* create_user: 201 unless the service raises.
create_user(U, email, password, salt) ==
    LET out == create_user_service(U, email, password, salt)
    IN  [status |-> IF out.status = 200 THEN 201 ELSE out.status,
         detail |-> IF out.status = 200 THEN "User Created" ELSE out.detail,
         store |-> out.store]

\* ------------------------------------------------------ task_controller.py
\* The routes of the task router, in the order they are declared.
TaskRoutes ==
    <<[method |-> "GET", pattern |-> "{task_id}", endpoint |-> "get_task"],
      [method |-> "GET", pattern |-> "tasks", endpoint |-> "get_tasks"],
      [method |-> "POST", pattern |-> "", endpoint |-> "create_task"],
      [method |-> "PATCH", pattern |-> "{task_id}", endpoint |-> "update_task"],
      [method |-> "PUT", pattern |-> "{task_id}", endpoint |-> "update_task_put"],
      [method |-> "DELETE", pattern |-> "{task_id}", endpoint |-> "delete_task"]>>

\* A path parameter matches any non-empty segment; a literal matches itself.
RouteMatches(route, method, seg) ==
    /\ route.method = method
    /\ IF route.pattern = "{task_id}" THEN seg # "" ELSE route.pattern = seg

\* The first declared route that matches handles the request.
TaskRoute(method, seg) ==
    LET hits == {i \in DOMAIN TaskRoutes : RouteMatches(TaskRoutes[i], method, seg)}
    IN  TaskRoutes[CHOOSE i \in hits : \A j \in hits : i <= j].endpoint

\* The requests clients send to /taskmanager: "<int>" is a decimal task id.
TaskTargets ==
    {[router |-> "taskmanager", method |-> "GET", seg |-> "<int>"],
     [router |-> "taskmanager", method |-> "GET", seg |-> "tasks"],
     [router |-> "taskmanager", method |-> "POST", seg |-> ""],
     [router |-> "taskmanager", method |-> "PATCH", seg |-> "<int>"],
     [router |-> "taskmanager", method |-> "PUT", seg |-> "<int>"],
     [router |-> "taskmanager", method |-> "DELETE", seg |-> "<int>"]}

\* The requests clients send to /auth.
AuthTargets ==
    {[router |-> "auth", method |-> "POST", seg |-> ""],
     [router |-> "auth", method |-> "POST", seg |-> "token"],
     [router |-> "auth", method |-> "POST", seg |-> "logout"]}

\* The endpoint of a task request once db and user are resolved: its
\* task_id: int parameter is validated first (422), then the service runs.
TaskEndpoint(T, target, user, task_id, body) ==
    LET ep == TaskRoute(target.method, target.seg)
        takes_id == ep \in {"get_task", "update_task", "update_task_put", "delete_task"}
    IN  IF takes_id /\ target.seg # "<int>"
        THEN Raise(422, "Unprocessable Entity", T)
        ELSE CASE ep = "get_task" -> get_task_service(T, user.id, task_id)
               [] ep = "get_tasks" -> get_all_task_service(T, user.id)
               [] ep = "create_task" ->
                    LET out == create_task_service(T, user.id, TaskBase(body))
                    IN  [out EXCEPT !.status = IF @ = 200 THEN 201 ELSE @]
               [] ep \in {"update_task", "update_task_put"} ->
                    update_task_service(T, user.id, task_id, TaskBase(body))
               [] ep = "delete_task" -> delete_task_service(T, user.id, task_id)

\* ------------------------------------------------------------ seed rows
\* Rows an earlier run of the service left in the database.
SeedUsers ==
    {[id |-> 1, email |-> "a@x.com",
      hashed_password |-> BcryptHash("pw", "s1"), created_date |-> Some(-1)],
     [id |-> 2, email |-> "b@x.com",
      hashed_password |-> BcryptHash("pw2", "s2"), created_date |-> Some(-1)]}

SeedTaskRow(id, owner, desc) ==
    [c \in TaskColumns |->
        CASE c = "id" -> id
          [] c = "user_id" -> owner
          [] c = "title" -> "old"
          [] c = "desciption" -> desc
          [] c = "category" -> "personal"
          [] c = "priority" -> "medium"
          [] c = "is_completed" -> FALSE
          [] c = "due_date" -> None
          [] c = "created_date" -> Some(-1)]

SeedTaskRows ==
    {SeedTaskRow(id, o, d) :
        id \in TaskIds, o \in {u.id : u \in SeedUsers}, d \in {Some("X")}}

\* Stores with at most one row per primary key.
SeedTaskStores ==
    {T \in SUBSET SeedTaskRows : \A a, b \in T : a.id = b.id => a = b}

\* ------------------------------------------------------------ request slots
NoTarget == [router |-> "", method |-> "", seg |-> ""]

\* A request as it arrives, before it is routed.
NewReq ==
    [pc |-> "new", target |-> NoTarget, cookie |-> None, email |-> "",
     password |-> "", db |-> "none", closes |-> 0, at |-> 0,
     status |-> 0, detail |-> "", identity |-> {}, token |-> None,
     set_cookie |-> None]

\* ------------------------------------------------- the service layer, Spec
NoCall ==
    [op |-> "none", user_id |-> 0, task_id |-> 0, input |-> {}, email |-> "",
     at |-> 0, before |-> {}, email_taken |-> FALSE,
     status |-> 0, detail |-> "", body |-> {}]

\* The record of one service call: what it was given, the rows with the
\* task's id before it, whether the email was registered before it, and what
\* it gave back.
Call(op, user_id, task_id, input, email, out) ==
    [op |-> op, user_id |-> user_id, task_id |-> task_id, input |-> input,
     email |-> email, at |-> now,
     before |-> {t \in tasks : t.id = task_id},
     email_taken |-> \E u \in users : u.email = email,
     status |-> out.status, detail |-> out.detail, body |-> out.body]

Init ==
    /\ users = SeedUsers
    /\ tasks \in SeedTaskStores
    /\ now = 0
    /\ created_default = 0
    /\ res = NoCall
    /\ reqs = EmptyBag

\* Time passes.
Tick ==
    /\ now + TickMinutes <= MaxClock * TickMinutes
    /\ now' = now + TickMinutes
    /\ UNCHANGED <<users, tasks, created_default, res, reqs>>

CreateUser ==
    \E email \in Emails, password \in Passwords :
        LET out == create_user_service(users, email, password, "s3")
        IN  /\ users' = out.store
            /\ res' = Call("create_user_service", 0, 0, {}, email, out)
            /\ UNCHANGED <<tasks, now, created_default, reqs>>

GetTask ==
    \E uid \in UserIds, tid \in TaskIds :
        LET out == get_task_service(tasks, uid, tid)
        IN  /\ tasks' = out.store
            /\ res' = Call("get_task_service", uid, tid, {}, "", out)
            /\ UNCHANGED <<users, now, created_default, reqs>>

GetAllTask ==
    \E uid \in UserIds :
        LET out == get_all_task_service(tasks, uid)
        IN  /\ tasks' = out.store
            /\ res' = Call("get_all_task_service", uid, 0, {}, "", out)
            /\ UNCHANGED <<users, now, created_default, reqs>>

CreateTask ==
    \E uid \in UserIds, body \in Bodies :
        LET out == create_task_service(tasks, uid, TaskBase(body))
        IN  /\ Cardinality(tasks) < MaxTasks
            /\ tasks' = out.store
            /\ res' = Call("create_task_service", uid, 0, {TaskBase(body)}, "", out)
            /\ UNCHANGED <<users, now, created_default, reqs>>

UpdateTask ==
    \E uid \in UserIds, tid \in TaskIds, body \in Bodies :
        LET out == update_task_service(tasks, uid, tid, TaskBase(body))
        IN  /\ tasks' = out.store
            /\ res' = Call("update_task_service", uid, tid, {TaskBase(body)}, "", out)
            /\ UNCHANGED <<users, now, created_default, reqs>>

DeleteTask ==
    \E uid \in UserIds, tid \in TaskIds :
        LET out == delete_task_service(tasks, uid, tid)
        IN  /\ tasks' = out.store
            /\ res' = Call("delete_task_service", uid, tid, {}, "", out)
            /\ UNCHANGED <<users, now, created_default, reqs>>

Next ==
    \/ Tick
    \/ CreateUser
    \/ GetTask
    \/ GetAllTask
    \/ CreateTask
    \/ UpdateTask
    \/ DeleteTask

Spec == Init /\ [][Next]_vars

\* ------------------------------------------------ the request layer, SpecHttp
\* The store the requests run on: both seeded users, one task for each id.
HttpSeedTasks ==
    {SeedTaskRow(id, ((id - 1) % Cardinality(SeedUsers)) + 1, Some("X")) :
        id \in TaskIds}

InitHttp ==
    /\ users = SeedUsers
    /\ tasks = HttpSeedTasks
    /\ now = 0
    /\ created_default = 0
    /\ res = NoCall
    /\ reqs = EmptyBag

\* The requests being handled and those answered.
Requests == BagToSet(reqs)

\* Request q moves on to q2.
Becomes(q, q2) == (reqs (-) SetToBag({q})) (+) SetToBag({q2})

\* Cookie values a client can put in a request: none, text that is no JWS, a
\* token signed with another key, and any cookie value a finished response
\* has set.
ForgedToken ==
    JwtEncode([sub |-> Some("a@x.com"), id |-> Some(1),
               exp |-> Some((MaxClock + 1) * TickMinutes)], OtherKey)

ClientCookies ==
    {None, Some(NotAJws), Some(ForgedToken)}
        \cup {Some(q.set_cookie[1].value) :
                q \in {x \in Requests : x.pc = "done" /\ x.set_cookie # None}}

UsesDb(target) == ~(target.router = "auth" /\ target.seg = "logout")

\* A request arrives and is routed.  Only the task endpoints read the jwt
\* cookie, so the model gives the other requests none.
Receive ==
    /\ BagCardinality(reqs) < MaxReqs
    /\ \E target \in TaskTargets \cup AuthTargets :
       \E cookie \in IF target.router = "taskmanager" THEN ClientCookies ELSE {None} :
          reqs' = reqs (+) SetToBag({
                      [NewReq EXCEPT !.pc = IF UsesDb(target) THEN "get_db"
                                          ELSE "endpoint",
                                     !.target = target,
                                     !.cookie = cookie]})
    /\ UNCHANGED <<users, tasks, now, created_default, res>>

\* Depends(get_db), the first dependency of every endpoint that has one:
\* the session is opened and handed to the request.
AcquireDb ==
    \E q \in Requests :
        /\ q.pc = "get_db"
        /\ reqs' = Becomes(q, [q EXCEPT !.db = "open",
                                        !.pc = IF q.target.router = "taskmanager"
                                               THEN "get_current_user"
                                               ELSE "endpoint"])
        /\ UNCHANGED <<users, tasks, now, created_default, res>>

\* Depends(get_current_user), the second dependency of the task endpoints.
Gate ==
    \E q \in Requests :
        /\ q.pc = "get_current_user"
        /\ LET out == get_current_user(q.cookie, now)
           IN  reqs' = Becomes(q, [q EXCEPT !.at = now,
                                            !.status = out.status,
                                            !.detail = out.detail,
                                            !.identity = out.identity,
                                            !.pc = IF out.status = 200
                                                   THEN "endpoint" ELSE "exit"])
        /\ UNCHANGED <<users, tasks, now, created_default, res>>

\* The answer of a request that holds no session is out when its endpoint
\* returns; the others still have get_db's generator to leave.
AfterEndpoint(q) == IF UsesDb(q.target) THEN "exit" ELSE "done"

\* The endpoint function runs, its service call in one transaction.
Endpoint ==
    \E q \in Requests :
        /\ q.pc = "endpoint"
        /\ IF q.target.router = "taskmanager"
           THEN \E task_id \in TaskIds, body \in Bodies :
                  LET out == TaskEndpoint(tasks, q.target, First(q.identity),
                                          task_id, body)
                  IN  /\ tasks' = out.store
                      /\ users' = users
                      /\ reqs' = Becomes(q, [q EXCEPT !.status = out.status,
                                                      !.detail = out.detail,
                                                      !.pc = AfterEndpoint(q)])
           ELSE IF q.target.seg = "logout"
           THEN /\ reqs' = Becomes(q, [q EXCEPT !.status = logout.status,
                                                !.detail = logout.detail,
                                                !.set_cookie = logout.set_cookie,
                                                !.pc = AfterEndpoint(q)])
                /\ UNCHANGED <<users, tasks>>
           ELSE \E email \in Emails, password \in Passwords :
                  IF q.target.seg = "token"
                  THEN LET out == login(users, email, password, now)
                       IN  /\ reqs' = Becomes(q, [q EXCEPT
                                                    !.email = email,
                                                    !.password = password,
                                                    !.status = out.status,
                                                    !.detail = out.detail,
                                                    !.token = out.token,
                                                    !.set_cookie = out.set_cookie,
                                                    !.pc = AfterEndpoint(q)])
                           /\ UNCHANGED <<users, tasks>>
                  ELSE LET out == create_user(users, email, password, "s3")
                       IN  /\ users' = out.store
                           /\ tasks' = tasks
                           /\ reqs' = Becomes(q, [q EXCEPT
                                                    !.email = email,
                                                    !.password = password,
                                                    !.status = out.status,
                                                    !.detail = out.detail,
                                                    !.pc = AfterEndpoint(q)])
        /\ UNCHANGED <<now, created_default, res>>

\* The request leaves get_db's generator: the finally clause runs.  Once the
\* response is out nothing of the request is kept but its status, and the
\* cookie the client was sent.
ReleaseDb ==
    \E q \in Requests :
        LET db == get_db_exit(q.db, q.status >= 400)
        IN  /\ q.pc = "exit"
            /\ reqs' = Becomes(q,
                  [NewReq EXCEPT !.pc = "done",
                                 !.db = db,
                                 !.closes = IF db = "closed" /\ q.db = "open"
                                            THEN q.closes + 1 ELSE q.closes,
                                 !.status = q.status,
                                 !.set_cookie = q.set_cookie])
            /\ UNCHANGED <<users, tasks, now, created_default, res>>

TickHttp ==
    /\ now + TickMinutes <= MaxClock * TickMinutes
    /\ now' = now + TickMinutes
    /\ UNCHANGED <<users, tasks, created_default, res, reqs>>

NextHttp ==
    \/ TickHttp
    \/ Receive
    \/ AcquireDb
    \/ Gate
    \/ Endpoint
    \/ ReleaseDb

SpecHttp == InitHttp /\ [][NextHttp]_vars

\* ================================================================ claims
TaskOps == {"get_task_service", "update_task_service", "delete_task_service"}

\* C1 (Spec).  Isolation: a get, update or delete called with a user id other
\* than the owner of the task with that id gives 404 "Task not found", hands
\* back no object, and leaves the task's row in the store as it was.
C1_Isolation ==
    (res.op \in TaskOps /\ \E t \in res.before : t.user_id # res.user_id)
        => /\ res.status = 404
           /\ res.detail = "Task not found"
           /\ res.body = {}
           /\ res.before \subseteq tasks

\* An update by a user who does not own the task has been refused.
C1_Witness ==
    /\ res.op = "update_task_service"
    /\ \E t \in res.before : t.user_id # res.user_id /\ t \in tasks
    /\ res.status = 404

\* The token login issued for (email, id) at time t.
IssuedBy(token) ==
    token.fmt = "jws" /\ token.sig = <<SecretKey, token.claims>>

TaskRequestsPastGate ==
    {q \in Requests : /\ q.target.router = "taskmanager"
                      /\ q.pc \in {"endpoint", "exit"}}

\* C2 (SpecHttp).  Token lifecycle: a request carrying a token that login
\* issued is given the token's identity when it is verified no later than the
\* token's expiry, and is refused with 401 when verified after it.
C2_TokenLifecycle ==
    \A q \in TaskRequestsPastGate :
            (q.cookie # None /\ IssuedBy(q.cookie[1]))
            => LET c == q.cookie[1].claims
               IN  IF q.at <= c.exp[1]
                   THEN q.identity = {[email |-> c.sub[1], id |-> c.id[1]]}
                   ELSE q.status = 401

\* The cookie is absent, or jwt.decode refuses it at time t: no JWS, a
\* signature the secret does not verify, or expired.
BadCookie(cookie, t) ==
    cookie = None \/ JwtDecode(cookie[1], SecretKey, t).error # ""

\* C3 (SpecHttp).  Authentication gate: a task request whose jwt cookie is
\* absent, malformed, not verifiable or expired is answered 401 and does not
\* get to the endpoint.
C3_AuthGate ==
    \A q \in TaskRequestsPastGate :
        BadCookie(q.cookie, q.at) => q.status = 401 /\ q.pc = "exit"

LoginsAnswered ==
    {q \in Requests : /\ q.target = [router |-> "auth", method |-> "POST",
                                       seg |-> "token"]
                      /\ q.pc = "exit"}

\* The registered user the credentials are those of, if any.
Holder(email, password) ==
    {u \in users : u.email = email
                   /\ u.hashed_password = BcryptHash(password, u.hashed_password.salt)}

\* What the caller of an endpoint sees of its answer.
Observable(q) ==
    [status |-> q.status, detail |-> q.detail, token |-> q.token,
     set_cookie |-> q.set_cookie]

\* C4 (SpecHttp).  Password verification: login with a registered email and
\* its password answers 200 with a token for that user, set as the cookie;
\* login with a wrong password or an unknown email answers 401 with no token
\* and no cookie, and any two failed logins have the same answer.
C4_PasswordVerification ==
    /\ \A q \in LoginsAnswered :
          LET holder == Holder(q.email, q.password)
          IN  IF holder # {}
              THEN /\ q.status = 200
                   /\ q.token # None
                   /\ IssuedBy(q.token[1])
                   /\ \E u \in holder :
                         /\ q.token[1].claims.sub = Some(u.email)
                         /\ q.token[1].claims.id = Some(u.id)
                   /\ q.set_cookie # None
                   /\ q.set_cookie[1].value = q.token[1]
              ELSE /\ q.status = 401
                   /\ q.token = None
                   /\ q.set_cookie = None
    /\ \A q1, q2 \in LoginsAnswered :
          (Holder(q1.email, q1.password) = {} /\ Holder(q2.email, q2.password) = {})
            => Observable(q1) = Observable(q2)

\* One login with a registered email and a wrong password and one with an
\* unknown email have both been answered.
C4_Witness ==
    \E q1, q2 \in LoginsAnswered :
        /\ \E u \in users : u.email = q1.email
        /\ Holder(q1.email, q1.password) = {}
        /\ \A u \in users : u.email # q2.email
        /\ q1.status = 401
        /\ q2.status = 401

\* C5 (Spec).  Uniqueness: registering an unused email succeeds and leaves
\* exactly one row with that email; registering a used one fails with 409
\* and the store still holds exactly one row with it.
C5_Uniqueness ==
    res.op = "create_user_service"
        => /\ res.status = IF res.email_taken THEN 409 ELSE 200
           /\ Cardinality({u \in users : u.email = res.email}) = 1

\* The object's attribute f has value v: a column of its row, or a plain
\* attribute set on the instance.
HasAttr(o, f, v) ==
    \/ f \in TaskColumns /\ o.row[f] = v
    \/ <<f, v>> \in o.extra

\* C6 (Spec).  Round trip: creating a task succeeds, stores it for the caller,
\* and getting it back by the returned id gives every supplied field (the
\* completion flag false when the body left it out).
C6_RoundTrip ==
    res.op = "create_task_service"
        => /\ res.status = 200
           /\ \E o \in res.body :
                 LET got == get_task_service(tasks, res.user_id, o.row.id)
                 IN  /\ o.row.user_id = res.user_id
                     /\ got.status = 200
                     /\ \A g \in got.body, task \in res.input, f \in TaskFields :
                           HasAttr(g, f, task[f])

\* C7 (Spec).  Listing: the list call for user u succeeds and gives exactly
\* the rows u owns.
C7_Listing ==
    res.op = "get_all_task_service"
        => /\ res.status = 200
           /\ {o.row : o \in res.body} = {t \in tasks : t.user_id = res.user_id}

\* The column that holds a field of the payload.
StoredColumn(f) == IF f = "description" THEN "desciption" ELSE f

\* C8 (Spec).  Full replace: after an update that succeeded, every mutable
\* column of the stored row holds the value the caller supplied.
C8_FullReplace ==
    (res.op = "update_task_service" /\ res.status = 200)
        => \E t \in tasks :
              /\ t.id = res.task_id
              /\ \A task \in res.input, f \in TaskFields :
                    t[StoredColumn(f)] = task[f]

\* C9 (Spec).  Creation timestamp: a create call leaves a row whose creation
\* timestamp is the clock value at the call.
C9_CreationTimestamp ==
    /\ res.op = "create_task_service"
          => \E o \in res.body : o.row.created_date = Some(res.at)
    /\ (res.op = "create_user_service" /\ ~res.email_taken)
          => \E u \in users : u.email = res.email /\ u.created_date = Some(res.at)

\* C10 (SpecHttp).  Scoped session: a request holds an open session only
\* between get_db's yield and its exit, and a request that has finished has
\* closed the session it opened, once, whatever its status.
C10_SessionReleased ==
    \A q \in Requests :
        /\ q.db = "open" => q.pc \in {"get_current_user", "endpoint", "exit"}
        /\ q.pc = "done" /\ q.db # "none" => q.db = "closed" /\ q.closes = 1
        /\ q.pc = "done" /\ q.status # 200 => q.db = "closed"
        /\ q.closes <= 1

\* One request has finished with a 500 and its session closed while another,
\* refused with 401, still holds its session.
C10_Witness ==
    \E q1, q2 \in Requests :
        /\ q1.pc = "done" /\ q1.status = 500
        /\ q1.db = "closed" /\ q1.closes = 1
        /\ q2.pc = "exit" /\ q2.status = 401 /\ q2.db = "open"

====
